---------------------------- MODULE Spec2Model ----------------------------
(***************************************************************************)
(* A model of grades_list (src/src/main.rs): main logs in to the portal,   *)
(* scrapes the grade table, logs out, computes the two GPAs and prints.    *)
(*                                                                         *)
(* Text (String, &str) is a sequence of one-character strings, so that     *)
(* replace, contains, trim and split_ascii_whitespace are computed the way *)
(* the standard library computes them.  A parsed HTML document is given by *)
(* what the selectors of the code return from it: the hidden inputs with   *)
(* their attributes, and the table.bodytext tables as rows of cells'       *)
(* inner_html.  An f32 is an exact rational or one of NaN, inf, -inf; the  *)
(* rounding of f32 arithmetic is not modelled.                             *)
(***************************************************************************)
EXTENDS Integers, Sequences, FiniteSets, TLC

VARIABLES
    pc,                 \* where main is: the next call it makes
    args,               \* Cli: username, password, json
    requests,           \* the HTTP requests issued so far, in order
    hidden,             \* elements selected by input[type='hidden'] in auth
    login_fields,       \* the form auth posts
    login_resp_content, \* the body of the login response
    authenticated,      \* what auth returned
    tables,             \* elements selected by table.bodytext in scrape_table
    table_content,      \* what scrape_table returned
    gpa,                \* what calculate_gpa returned
    stdout,             \* what main printed
    error               \* how main ended when it did not return Ok(())

vars == <<pc, args, requests, hidden, login_fields, login_resp_content,
          authenticated, tables, table_content, gpa, stdout, error>>

-----------------------------------------------------------------------------
(* Bounds of the model *)

MaxHidden == 2       \* hidden inputs on the login page
MaxBodyPieces == 2   \* pieces a login response body is made of
MaxRows == 3         \* tr rows of a table
MaxPieces == 3       \* pieces a cell text is made of
MaxGrades == 2       \* records given to calculate_gpa

\* Option: None, or Some(v); a variable main has not bound yet is None
None == <<>>
Some(v) == <<v>>
Val(o) == o[1]

\* Result of a call: Ok(v), or Err(e) for an Err and for a panic
Ok(v) == <<"Ok", v>>
Err(e) == <<"Err", e>>
IsOk(r) == r[1] = "Ok"

-----------------------------------------------------------------------------
(* Text *)

RECURSIVE Flatten(_)
Flatten(ps) == IF ps = <<>> THEN <<>> ELSE Head(ps) \o Flatten(Tail(ps))

SeqsUpTo(S, n) == UNION {[1..k -> S] : k \in 0..n}

StartsWith(s, p) == Len(s) >= Len(p) /\ SubSeq(s, 1, Len(p)) = p

\* str::replace: every non-overlapping match of from, left to right
RECURSIVE replace(_, _, _)
replace(s, from, to) ==
    IF Len(s) < Len(from) THEN s
    ELSE IF StartsWith(s, from)
         THEN to \o replace(SubSeq(s, Len(from) + 1, Len(s)), from, to)
         ELSE <<Head(s)>> \o replace(Tail(s), from, to)

\* str::contains: a search for pat from the left
RECURSIVE contains(_, _)
contains(s, pat) ==
    IF Len(s) < Len(pat) THEN FALSE
    ELSE IF StartsWith(s, pat) THEN TRUE
    ELSE contains(Tail(s), pat)

AsciiWhitespace == {" ", "\t", "\n", "\r", "\f"}

RECURSIVE TrimStart(_)
TrimStart(s) ==
    IF s # <<>> /\ Head(s) \in AsciiWhitespace THEN TrimStart(Tail(s)) ELSE s

RECURSIVE TrimEnd(_)
TrimEnd(s) ==
    IF s # <<>> /\ s[Len(s)] \in AsciiWhitespace
    THEN TrimEnd(SubSeq(s, 1, Len(s) - 1)) ELSE s

\* str::trim
trim(s) == TrimEnd(TrimStart(s))

\* str::split_ascii_whitespace: the maximal runs of non-whitespace
RECURSIVE SplitFrom(_, _)
SplitFrom(s, cur) ==
    IF s = <<>> THEN (IF cur = <<>> THEN <<>> ELSE <<cur>>)
    ELSE IF Head(s) \in AsciiWhitespace
         THEN (IF cur = <<>> THEN <<>> ELSE <<cur>>) \o SplitFrom(Tail(s), <<>>)
         ELSE SplitFrom(Tail(s), Append(cur, Head(s)))

split_ascii_whitespace(s) == SplitFrom(s, <<>>)

-----------------------------------------------------------------------------
(* html_entities *)

NBSP == <<"&", "n", "b", "s", "p", ";">>
AMP == <<"&", "a", "m", "p", ";">>
LT == <<"&", "l", "t", ";">>
GT == <<"&", "g", "t", ";">>

html_entities(s) ==
    replace(replace(replace(replace(s, NBSP, <<>>), AMP, <<"&">>),
                    LT, <<"<">>), GT, <<">">>)

-----------------------------------------------------------------------------
(* f32: an exact rational [n, d] in lowest terms with d > 0; NaN, inf and  *)
(* -inf are 0/0, 1/0 and -1/0.  The sign of a zero is not kept.            *)

NaN == [n |-> 0, d |-> 0]
Inf == [n |-> 1, d |-> 0]
NegInf == [n |-> -1, d |-> 0]

Abs(x) == IF x < 0 THEN -x ELSE x

RECURSIVE GCD(_, _)
GCD(a, b) == IF b = 0 THEN a ELSE GCD(b, a % b)

Rat(n, d) ==
    LET g == GCD(Abs(n), d) IN [n |-> n \div g, d |-> d \div g]

Zero == Rat(0, 1)

F32Add(a, b) == Rat(a.n * b.d + b.n * a.d, a.d * b.d)

F32Mul(a, b) == Rat(a.n * b.n, a.d * b.d)

\* a division that gives 0 for a zero divisor
F32DivGuarded(a, b) ==
    IF b.n = 0 THEN Rat(0, 1)
    ELSE IF b.n > 0 THEN Rat(a.n * b.d, a.d * b.n)
    ELSE Rat(-(a.n * b.d), a.d * (-b.n))

\* IEEE division of finite values: 0/0 is NaN, x/0 is an infinity
F32Div(a, b) ==
    IF b.n = 0
    THEN (IF a.n = 0 THEN NaN ELSE IF a.n > 0 THEN Inf ELSE NegInf)
    ELSE IF b.n > 0 THEN Rat(a.n * b.d, a.d * b.n)
    ELSE Rat(-(a.n * b.d), a.d * (-b.n))

Digits == {"0", "1", "2", "3", "4", "5", "6", "7", "8", "9"}

DigitVal ==
    "0" :> 0 @@ "1" :> 1 @@ "2" :> 2 @@ "3" :> 3 @@ "4" :> 4 @@
    "5" :> 5 @@ "6" :> 6 @@ "7" :> 7 @@ "8" :> 8 @@ "9" :> 9

RECURSIVE Pow10(_)
Pow10(k) == IF k = 0 THEN 1 ELSE 10 * Pow10(k - 1)

RECURSIVE DigitsVal(_, _)
DigitsVal(ds, acc) ==
    IF ds = <<>> THEN acc ELSE DigitsVal(Tail(ds), 10 * acc + DigitVal[Head(ds)])

\* str::parse::<f32> on texts without sign, exponent, "inf" or "nan":
\* digits with at most one '.', and at least one digit
ParseF32(t) ==
    LET dots == {i \in 1..Len(t) : t[i] = "."}
        dot == IF dots = {} THEN Len(t) + 1
               ELSE CHOOSE i \in dots : \A j \in dots : i <= j
        int == SubSeq(t, 1, dot - 1)
        frac == SubSeq(t, dot + 1, Len(t))
        ok == /\ \A i \in 1..Len(int) : int[i] \in Digits
              /\ \A i \in 1..Len(frac) : frac[i] \in Digits
              /\ Len(int) + Len(frac) >= 1
    IN IF ok
       THEN Ok(Rat(DigitsVal(int \o frac, 0), Pow10(Len(frac))))
       ELSE Err("ParseFloatError")

-----------------------------------------------------------------------------
(* calculate_gpa *)

NoError == "none"
PanicIndex == "panic: index out of bounds"
PanicUnwrap == "panic: called unwrap on a None or Err value"

nine ==
    <<"A", "+">> :> Rat(9, 1) @@ <<"A">> :> Rat(8, 1) @@
    <<"B", "+">> :> Rat(7, 1) @@ <<"B">> :> Rat(6, 1) @@
    <<"C", "+">> :> Rat(5, 1) @@ <<"C">> :> Rat(4, 1) @@
    <<"D", "+">> :> Rat(3, 1) @@ <<"D">> :> Rat(2, 1) @@
    <<"E">> :> Rat(1, 1) @@ <<"F">> :> Rat(0, 1)

four ==
    <<"A", "+">> :> Rat(40, 10) @@ <<"A">> :> Rat(38, 10) @@
    <<"B", "+">> :> Rat(33, 10) @@ <<"B">> :> Rat(30, 10) @@
    <<"C", "+">> :> Rat(23, 10) @@ <<"C">> :> Rat(20, 10) @@
    <<"D", "+">> :> Rat(13, 10) @@ <<"D">> :> Rat(10, 10) @@
    <<"E">> :> Rat(7, 10) @@ <<"F">> :> Rat(0, 10)

\* the for loop over grades; acc holds total_credits, nine_point, four_point
RECURSIVE GpaLoop(_, _)
GpaLoop(grades, acc) ==
    IF grades = <<>> THEN Ok(acc)
    ELSE LET grade == Head(grades) IN
         IF grade.grade \in DOMAIN nine
         THEN LET parts == split_ascii_whitespace(grade.course)
                  course_parts == [i \in 1..Len(parts) |-> trim(parts[i])]
              IN IF Len(course_parts) < 4 THEN Err(PanicIndex)
                 ELSE LET parsed == ParseF32(course_parts[4])
                          credit == parsed[2]
                      IN
                      IF ~IsOk(parsed) THEN Err(PanicUnwrap)
                      ELSE GpaLoop(Tail(grades),
                               [total_credits |-> F32Add(acc.total_credits, credit),
                                nine_point |-> F32Add(acc.nine_point,
                                                 F32Mul(nine[grade.grade], credit)),
                                four_point |-> F32Add(acc.four_point,
                                                 F32Mul(four[grade.grade], credit))])
         ELSE GpaLoop(Tail(grades), acc)

\* a loop that takes the credit from the third token
RECURSIVE GpaLoopThirdToken(_, _)
GpaLoopThirdToken(grades, acc) ==
    IF grades = <<>> THEN Ok(acc)
    ELSE LET grade == Head(grades) IN
         IF grade.grade \in DOMAIN nine
         THEN LET course_parts == split_ascii_whitespace(grade.course)
              IN IF Len(course_parts) < 3 THEN Err(PanicIndex)
                 ELSE LET parsed == ParseF32(course_parts[3])
                          credit == parsed[2]
                      IN
                      IF ~IsOk(parsed) THEN Err(PanicUnwrap)
                      ELSE GpaLoopThirdToken(Tail(grades),
                               [total_credits |-> F32Add(acc.total_credits, credit),
                                nine_point |-> F32Add(acc.nine_point,
                                                 F32Mul(nine[grade.grade], credit)),
                                four_point |-> F32Add(acc.four_point,
                                                 F32Mul(four[grade.grade], credit))])
         ELSE GpaLoopThirdToken(Tail(grades), acc)

CalculateGpaThirdToken(grades) ==
    LET res == GpaLoopThirdToken(grades, [total_credits |-> Zero,
                                          nine_point |-> Zero, four_point |-> Zero])
        acc == res[2]
    IN IF ~IsOk(res) THEN res
       ELSE Ok([four |-> F32Div(acc.four_point, acc.total_credits),
                nine |-> F32Div(acc.nine_point, acc.total_credits)])

\* a calculate_gpa that weighs every record, whatever its grade
CalculateGpaNoGuard(grades) ==
    LET known == [i \in 1..Len(grades) |->
                    IF grades[i].grade \in DOMAIN nine THEN grades[i]
                    ELSE [grades[i] EXCEPT !.grade = <<"F">>]]
        res == GpaLoop(known, [total_credits |-> Zero, nine_point |-> Zero,
                               four_point |-> Zero])
        acc == res[2]
    IN IF ~IsOk(res) THEN res
       ELSE Ok([four |-> F32Div(acc.four_point, acc.total_credits),
                nine |-> F32Div(acc.nine_point, acc.total_credits)])

calculate_gpa(grades) ==
    LET res == GpaLoop(grades, [total_credits |-> Zero, nine_point |-> Zero,
                                four_point |-> Zero])
        acc == res[2]
    IN IF ~IsOk(res) THEN res
       ELSE Ok([four |-> F32Div(acc.four_point, acc.total_credits),
                nine |-> F32Div(acc.nine_point, acc.total_credits)])

-----------------------------------------------------------------------------
(* auth *)

COURSE_URL == "COURSE_URL"
LOGIN_PAGE == "LOGIN_PAGE"
LOGOUT_PAGE == "LOGOUT_PAGE"

\* a request and the form it carries
Get(url) == [method |-> "GET", url |-> url, form |-> None]

\* a login that is sent as a GET
PostAsGet(url, fields) == [method |-> "GET", url |-> url, form |-> Some(fields)]

Post(url, fields) == [method |-> "POST", url |-> url, form |-> Some(fields)]

MARKER ==
    <<"Y", "o", "u", " ", "h", "a", "v", "e", " ",
      "s", "u", "c", "c", "e", "s", "s", "f", "u", "l", "l", "y", " ",
      "a", "u", "t", "h", "e", "n", "t", "i", "c", "a", "t", "e", "d">>

PanicAuth == "panic: Could not authenticate!"
PanicTable == "panic: Could not find table!"
TransportError == "Err: transport"

\* HashMap::insert: the new value replaces the one the key had
Insert(m, k, v) == [x \in DOMAIN m \cup {k} |-> IF x = k THEN v ELSE m[x]]

\* the three fixed fields the map starts with
FixedFields(a) ==
    "mli" :> a.username @@ "password" :> a.password @@ "dologin" :> "Login"

\* the for_each over the hidden inputs, in document order; attr(..).unwrap()
\* panics on an element without the attribute
RECURSIVE InsertHidden(_, _)
InsertHidden(m, elements) ==
    IF elements = <<>> THEN Ok(m)
    ELSE LET element == Head(elements) IN
         IF element.name = None \/ element.value = None THEN Err(PanicUnwrap)
         ELSE InsertHidden(Insert(m, Val(element.name), Val(element.value)),
                           Tail(elements))

\* a form in which a field that is already there keeps its value
RECURSIVE InsertHiddenKeepFirst(_, _)
InsertHiddenKeepFirst(m, elements) ==
    IF elements = <<>> THEN Ok(m)
    ELSE LET element == Head(elements) IN
         IF element.name = None \/ element.value = None THEN Err(PanicUnwrap)
         ELSE InsertHiddenKeepFirst(
                  IF Val(element.name) \in DOMAIN m THEN m
                  ELSE Insert(m, Val(element.name), Val(element.value)),
                  Tail(elements))

LoginFieldsKeepFirst(a, elements) == InsertHiddenKeepFirst(FixedFields(a), elements)

LoginFields(a, elements) == InsertHidden(FixedFields(a), elements)

\* a search that ignores the last character of the marker
AuthenticatedByPrefix(body) == contains(body, SubSeq(MARKER, 1, Len(MARKER) - 1))

Authenticated(body) == contains(body, MARKER)

Abort(e) ==
    /\ pc' = "aborted"
    /\ error' = e

\* auth up to the login POST: the GET of the course page, and the form
AuthGet(HiddenLists) ==
    /\ pc = "auth_get"
    /\ requests' = Append(requests, Get(COURSE_URL))
    /\ \/ /\ Abort(TransportError)
          /\ UNCHANGED <<hidden, login_fields>>
       \/ \E elements \in HiddenLists :
            /\ hidden' = Some(elements)
            /\ IF ~IsOk(LoginFields(args, elements))
               THEN /\ Abort(LoginFields(args, elements)[2])
                    /\ UNCHANGED login_fields
               ELSE /\ login_fields' = Some(LoginFields(args, elements)[2])
                    /\ pc' = "auth_post"
                    /\ UNCHANGED error
    /\ UNCHANGED <<args, login_resp_content, authenticated, tables,
                   table_content, gpa, stdout>>

\* the rest of auth: the login POST and what auth returns
AuthPost(Bodies) ==
    /\ pc = "auth_post"
    /\ requests' = Append(requests, Post(LOGIN_PAGE, Val(login_fields)))
    /\ \/ /\ Abort(TransportError)
          /\ UNCHANGED <<login_resp_content, authenticated>>
       \/ \E body \in Bodies :
            /\ login_resp_content' = Some(body)
            /\ authenticated' = Some(Authenticated(body))
            /\ pc' = "check"
            /\ UNCHANGED error
    /\ UNCHANGED <<args, hidden, login_fields, tables, table_content, gpa, stdout>>

\* a main that goes on whatever auth returned
MainCheckNoPanic ==
    /\ pc = "check"
    /\ pc' = "scrape_table"
    /\ UNCHANGED <<args, requests, hidden, login_fields, login_resp_content,
                   authenticated, tables, table_content, gpa, stdout, error>>

\* main: if !authenticated { panic!(...) }
MainCheck ==
    /\ pc = "check"
    /\ IF Val(authenticated)
       THEN pc' = "scrape_table" /\ UNCHANGED error
       ELSE Abort(PanicAuth)
    /\ UNCHANGED <<args, requests, hidden, login_fields, login_resp_content,
                   authenticated, tables, table_content, gpa, stdout>>

-----------------------------------------------------------------------------
(* scrape_table *)

\* the inner_html of the td cells of a row, trimmed
select_cells(element) == [i \in 1..Len(element) |-> trim(element[i])]

\* the for loop over the rows: row[0] .. row[3] of a row that is not empty
RECURSIVE ScrapeLoop(_, _)
ScrapeLoop(data, resp) ==
    IF data = <<>> THEN Ok(resp)
    ELSE LET row == Head(data) IN
         IF row = <<>> THEN ScrapeLoop(Tail(data), resp)
         ELSE IF Len(row) < 4 THEN Err(PanicIndex)
         ELSE ScrapeLoop(Tail(data),
                  Append(resp, [session |-> html_entities(row[1]),
                                course |-> html_entities(row[2]),
                                title |-> html_entities(row[3]),
                                grade |-> html_entities(row[4])]))

\* a loop that passes over the rows that are too short
RECURSIVE ScrapeLoopSkipShort(_, _)
ScrapeLoopSkipShort(data, resp) ==
    IF data = <<>> THEN Ok(resp)
    ELSE LET row == Head(data) IN
         IF Len(row) < 4 THEN ScrapeLoopSkipShort(Tail(data), resp)
         ELSE ScrapeLoopSkipShort(Tail(data),
                  Append(resp, [session |-> html_entities(row[1]),
                                course |-> html_entities(row[2]),
                                title |-> html_entities(row[3]),
                                grade |-> html_entities(row[4])]))

ScrapeDocumentSkipShort(tabs) ==
    IF tabs = <<>> THEN Err(PanicTable)
    ELSE ScrapeLoopSkipShort(
             [i \in 1..Len(tabs[1]) |-> select_cells(tabs[1][i])], <<>>)

\* a scrape that reads the last matching table
ScrapeDocumentLastTable(tabs) ==
    IF tabs = <<>> THEN Err(PanicTable)
    ELSE ScrapeLoop(
             [i \in 1..Len(tabs[Len(tabs)]) |-> select_cells(tabs[Len(tabs)][i])],
             <<>>)

\* scrape_table after the page is parsed: tabs are the table.bodytext elements
ScrapeDocument(tabs) ==
    IF tabs = <<>> THEN Err(PanicTable)
    ELSE ScrapeLoop([i \in 1..Len(tabs[1]) |-> select_cells(tabs[1][i])], <<>>)

ScrapeTable(Pages) ==
    /\ pc = "scrape_table"
    /\ requests' = Append(requests, Get(COURSE_URL))
    /\ \/ /\ Abort(TransportError)
          /\ UNCHANGED <<tables, table_content>>
       \/ \E tabs \in Pages :
            /\ tables' = Some(tabs)
            /\ IF ~IsOk(ScrapeDocument(tabs))
               THEN /\ Abort(ScrapeDocument(tabs)[2])
                    /\ UNCHANGED table_content
               ELSE /\ table_content' = Some(ScrapeDocument(tabs)[2])
                    /\ pc' = "logout"
                    /\ UNCHANGED error
    /\ UNCHANGED <<args, hidden, login_fields, login_resp_content,
                   authenticated, gpa, stdout>>

-----------------------------------------------------------------------------
(* logout, and the rest of main *)

Logout ==
    /\ pc = "logout"
    /\ requests' = Append(requests, Get(LOGOUT_PAGE))
    /\ \/ Abort(TransportError)
       \/ pc' = "calculate_gpa" /\ UNCHANGED error
    /\ UNCHANGED <<args, hidden, login_fields, login_resp_content,
                   authenticated, tables, table_content, gpa, stdout>>

CalculateGpa ==
    /\ pc = "calculate_gpa"
    /\ IF ~IsOk(calculate_gpa(Val(table_content)))
       THEN /\ Abort(calculate_gpa(Val(table_content))[2])
            /\ UNCHANGED gpa
       ELSE /\ gpa' = Some(calculate_gpa(Val(table_content))[2])
            /\ pc' = "print"
            /\ UNCHANGED error
    /\ UNCHANGED <<args, requests, hidden, login_fields, login_resp_content,
                   authenticated, tables, table_content, stdout>>

\* serde_json writes an f32 that is not finite as null
JsonNull == [n |-> 0, d |-> -1]
JsonF32(x) == IF x.d = 0 THEN JsonNull ELSE x

\* what main prints: the JSON document, or the two tables
Output(a, g, content) ==
    IF a.json
    THEN [kind |-> "json",
          gpa |-> [four |-> JsonF32(g.four), nine |-> JsonF32(g.nine)],
          grades |-> content]
    ELSE [kind |-> "table",
          gpa |-> <<<<"Four Point", "Nine Point">>, <<g.four, g.nine>>>>,
          grades |-> <<<<"Session", "Course", "Title", "Grade">>>> \o
                     [i \in 1..Len(content) |->
                        <<content[i].session, content[i].course,
                          content[i].title, content[i].grade>>]]

MainPrint ==
    /\ pc = "print"
    /\ stdout' = Some(Output(args, Val(gpa), Val(table_content)))
    /\ pc' = "done"
    /\ UNCHANGED <<args, requests, hidden, login_fields, login_resp_content,
                   authenticated, tables, table_content, gpa, error>>

-----------------------------------------------------------------------------
(* The inputs: command lines, login pages, login responses, course pages *)

ArgsSet == [username : {"alice"}, password : {"secret"}, json : BOOLEAN]

HiddenInputs ==
    [name : {Some("mli"), Some("token"), Some("sid"), None},
     value : {Some("v1"), Some("v2"), None}]

MarkerLower ==
    <<"y", "o", "u", " ", "h", "a", "v", "e", " ",
      "s", "u", "c", "c", "e", "s", "s", "f", "u", "l", "l", "y", " ",
      "a", "u", "t", "h", "e", "n", "t", "i", "c", "a", "t", "e", "d">>

BodyPieces ==
    {MARKER, MarkerLower, SubSeq(MARKER, 1, Len(MARKER) - 1), <<"d">>,
     <<"<", "p", ">">>}

Bodies == {Flatten(ps) : ps \in SeqsUpTo(BodyPieces, MaxBodyPieces)}

DigitChar == <<"1", "2", "3", "4", "5", "6", "7", "8", "9">>

GradeOfRow == <<<<"A", "+">>, <<"B">>, <<"I", "P">>, <<"F">>, <<"C", "+">>,
                <<"W">>, <<"A">>, <<"D">>, <<"E">>>>

\* the c-th cell of the r-th row of a grade table: session, course (with a
\* credit of r), title, grade, and a cell the code does not read
Cell(r, c) ==
    CASE c = 1 -> <<" ", "F", "W", "&", "n", "b", "s", "p", ";", DigitChar[r], "\n">>
      [] c = 2 -> <<"L", "E", " ", "C", "S", " ", "1", "0", DigitChar[r], " ",
                    DigitChar[r], ".", "0", "0", " ", "A">>
      [] c = 3 -> <<"T", " ", "&", "a", "m", "p", ";", " ", DigitChar[r]>>
      [] c = 4 -> GradeOfRow[r]
      [] OTHER -> <<"x", DigitChar[r]>>

\* a table by the number of td cells of each of its rows
TableOfShape(shape) ==
    [r \in 1..Len(shape) |-> [c \in 1..shape[r] |-> Cell(r, c)]]

OtherTable == <<<<<<"o", "1">>, <<"o", "2">>, <<"o", "3">>, <<"o", "4">>>>>>

ShapePages ==
    LET Tabs == {TableOfShape(sh) : sh \in SeqsUpTo(0..5, MaxRows)}
    IN {<<>>} \cup {<<tb>> : tb \in Tabs} \cup {<<tb, OtherTable>> : tb \in Tabs}

\* cell texts made of entities, parts of entities and plain characters
CellPieces ==
    {NBSP, AMP, LT, GT, <<"&">>, <<"a", "m", "p", ";">>, <<"l", "t", ";">>,
     <<"n", "b", "s", "p", ";">>, <<"F">>, <<" ">>, <<"&", "q", ";">>}

CellTexts == {Flatten(ps) : ps \in SeqsUpTo(CellPieces, MaxPieces)}

EntityPages == {<<<<<<tx, Cell(1, 2), Cell(1, 3), Cell(1, 4)>>>>>> : tx \in CellTexts}

Txt3Tok1 == <<"A", "P", "/", "M", "A", "T", "H", " ", "1", "0", "0", "0", " ",
              "3", ".", "0", "0">>
Txt3Tok2 == <<"A", "P", "/", "M", "A", "T", "H", " ", "2", "0", "0", "0", " ",
              "3", ".", "0", "0">>
Txt4Tok1 == <<"A", "P", " ", "M", "A", "T", "H", " ", "1", "0", "0", "0", " ",
              "3", ".", "0", "0">>
Txt4Tok2 == <<"A", "P", " ", "M", "A", "T", "H", " ", "2", "0", "0", "0", " ",
              "3", ".", "0", "0">>
Txt5Tok == <<"L", "E", " ", " ", "C", "S", "\t", "2", "0", "3", "0", " ",
             "1", ".", "5", " ", "A">>
TxtX == <<"X", " ", "1", ".", "0", "0">>
TxtBadCredit == <<"L", "E", " ", "C", "S", " ", "2", "0", "3", "0", " ", "A">>
TxtZeroCredit == <<"L", "E", " ", "C", "S", " ", "1", "0", "0", "0", " ", "0", ".", "0", "0">>

Courses == {Txt3Tok1, Txt4Tok1, Txt5Tok, TxtX, TxtBadCredit, TxtZeroCredit}

OtherGrades == {<<"I", "P">>, <<"D", "E", "F">>, <<"W">>, <<"a", "+">>}

GradeRows ==
    {<<<<"F", "W", "2", "0">>, c, <<"T">>, g>> :
        c \in Courses, g \in {<<"A", "+">>, <<"I", "P">>}}
    \cup
    {<<<<"F", "W", "2", "0">>, c, <<"T">>, <<"B">>>> : c \in {Txt3Tok2, Txt4Tok2}}
    \cup
    {<<<<"F", "W", "2", "0">>, Txt5Tok, <<"T">>, g>> :
        g \in DOMAIN nine \cup OtherGrades}

GpaPages == {<<<<<<>>>> \o rows>> : rows \in SeqsUpTo(GradeRows, MaxGrades)}

\* the pages of the whole run: no table, grades, a grade in progress, a short
\* row, a course without credit
MainPages ==
    {<<>>,
     <<<<<<>>, <<<<"F", "W">>, Txt4Tok1, <<"T">>, <<"A", "+">>>>,
             <<<<"F", "W">>, Txt4Tok2, <<"T">>, <<"B">>>>>>>>,
     <<<<<<>>, <<<<"F", "W">>, TxtX, <<"T">>, <<"I", "P">>>>>>>>,
     <<<<<<>>, <<<<"F", "W">>, Txt4Tok1, <<"T">>>>>>>>,
     <<<<<<>>, <<<<"F", "W">>, Txt3Tok1, <<"T">>, <<"A", "+">>>>>>>>}

-----------------------------------------------------------------------------
(* The run of main *)

Init ==
    /\ pc = "auth_get"
    /\ args \in ArgsSet
    /\ requests = <<>>
    /\ hidden = None
    /\ login_fields = None
    /\ login_resp_content = None
    /\ authenticated = None
    /\ tables = None
    /\ table_content = None
    /\ gpa = None
    /\ stdout = None
    /\ error = NoError

MainAuthGet == AuthGet(SeqsUpTo(HiddenInputs, 1))
MainAuthPost == AuthPost(Bodies)
MainScrapeTable == ScrapeTable(MainPages)

Next ==
    \/ MainAuthGet
    \/ MainAuthPost
    \/ MainCheck
    \/ MainScrapeTable
    \/ Logout
    \/ CalculateGpa
    \/ MainPrint

Spec == Init /\ [][Next]_vars

\* auth on login pages with up to MaxHidden hidden inputs
FormAuthGet == AuthGet(SeqsUpTo(HiddenInputs, MaxHidden))
FormAuthPost == AuthPost({MARKER, MarkerLower})

NextAuth == FormAuthGet \/ FormAuthPost

SpecAuth == Init /\ [][NextAuth]_vars

\* main after auth returned true on a login page without hidden inputs
InitScrape ==
    /\ pc = "scrape_table"
    /\ args \in ArgsSet
    /\ requests = <<Get(COURSE_URL), Post(LOGIN_PAGE, LoginFields(args, <<>>)[2])>>
    /\ hidden = Some(<<>>)
    /\ login_fields = Some(LoginFields(args, <<>>)[2])
    /\ login_resp_content = Some(MARKER)
    /\ authenticated = Some(Authenticated(MARKER))
    /\ tables = None
    /\ table_content = None
    /\ gpa = None
    /\ stdout = None
    /\ error = NoError

\* the rest of main on tables of every shape
ShapeScrapeTable == ScrapeTable(ShapePages)

NextScrape == ShapeScrapeTable \/ Logout \/ CalculateGpa \/ MainPrint

SpecScrape == InitScrape /\ [][NextScrape]_vars

\* the rest of main on cells with entities
EntityScrapeTable == ScrapeTable(EntityPages)

NextEntities == EntityScrapeTable \/ Logout \/ CalculateGpa \/ MainPrint

SpecEntities == InitScrape /\ [][NextEntities]_vars

\* the rest of main on tables of courses and grades
GpaScrapeTable == ScrapeTable(GpaPages)

NextGpa == GpaScrapeTable \/ Logout \/ CalculateGpa \/ MainPrint

SpecGpa == InitScrape /\ [][NextGpa]_vars

-----------------------------------------------------------------------------
(* The order of the requests, authentication, and what is printed *)

MethodAndUrl(r) == <<r.method, r.url>>

FourRequests ==
    <<<<"GET", "COURSE_URL">>, <<"POST", "LOGIN_PAGE">>,
      <<"GET", "COURSE_URL">>, <<"GET", "LOGOUT_PAGE">>>>

\* C1: the requests issued so far are always a prefix of GET course page,
\* POST login, GET course page, GET logout, and a run in which every step
\* succeeded has issued exactly these four.
C1_RequestOrder ==
    /\ Len(requests) <= Len(FourRequests)
    /\ \A i \in 1..Len(requests) : MethodAndUrl(requests[i]) = FourRequests[i]
    /\ pc \in {"calculate_gpa", "print", "done"} => Len(requests) = Len(FourRequests)

C1_Witness ==
    /\ pc = "done"
    /\ error = NoError
    /\ Len(requests) = Len(FourRequests)

Words(ws) ==
    Flatten([i \in 1..Len(ws) |-> IF i = 1 THEN ws[i] ELSE <<" ">> \o ws[i]])

SuccessText ==
    Words(<<<<"Y", "o", "u">>, <<"h", "a", "v", "e">>,
            <<"s", "u", "c", "c", "e", "s", "s", "f", "u", "l", "l", "y">>,
            <<"a", "u", "t", "h", "e", "n", "t", "i", "c", "a", "t", "e", "d">>>>)

\* s is pre \o SuccessText \o post for some pre and post
HasSuccessText(s) ==
    \E i \in 0..Len(s) :
        /\ i + Len(SuccessText) <= Len(s)
        /\ \A j \in 1..Len(SuccessText) : s[i + j] = SuccessText[j]

\* C2: auth returns true exactly when the body of the login response has
\* "You have successfully authenticated" in it, in this case; when it returns
\* false main panics with "Could not authenticate!", and the run has no
\* request after the login POST and no output.
C2_AuthMarker ==
    /\ authenticated # None =>
          (Val(authenticated) <=> HasSuccessText(Val(login_resp_content)))
    /\ authenticated = Some(FALSE) =>
          /\ pc \in {"check", "aborted"}
          /\ pc = "aborted" => error = "panic: Could not authenticate!"
          /\ Len(requests) = 2
          /\ tables = None /\ table_content = None /\ gpa = None
          /\ stdout = None

C2_Witness ==
    /\ pc = "aborted"
    /\ authenticated = Some(FALSE)
    /\ login_resp_content = Some(MarkerLower \o <<"<", "p", ">">>)
    /\ error = "panic: Could not authenticate!"

\* C3: nothing is printed unless auth returned true and scrape_table, the
\* logout request and calculate_gpa succeeded; a run that ended in an error,
\* such as a failed logout after a scrape that succeeded, has printed nothing.
C3_NoPartialOutput ==
    /\ stdout # None =>
          /\ authenticated = Some(TRUE)
          /\ table_content # None
          /\ Len(requests) = 4
          /\ gpa # None
          /\ error = NoError
          /\ pc = "done"
    /\ error # NoError => pc = "aborted" /\ stdout = None

C3_Witness ==
    /\ pc = "aborted"
    /\ error = TransportError
    /\ Len(requests) = 4
    /\ table_content # None /\ Len(Val(table_content)) = 2
    /\ stdout = None

-----------------------------------------------------------------------------
(* The login form *)

FixedNames == {"mli", "password", "dologin"}

\* the form of the login POST, once it is sent
Submitted == Len(requests) >= 2 /\ requests[2].method = "POST"
SubmittedForm == Val(requests[2].form)

FixedValue(k) ==
    CASE k = "mli" -> args.username
      [] k = "password" -> args.password
      [] k = "dologin" -> "Login"

\* C4 as stated: the login form has exactly N+3 fields for a page with N
\* hidden inputs, and a hidden input named like a fixed field gives that
\* field its value.
C4_FieldCountAsStated ==
    Submitted =>
        LET h == Val(hidden) IN
        /\ Cardinality(DOMAIN SubmittedForm) = Len(h) + 3
        /\ \A i \in 1..Len(h) :
              Val(h[i].name) \in FixedNames =>
                  \E j \in 1..Len(h) :
                      /\ h[j].name = h[i].name
                      /\ SubmittedForm[Val(h[i].name)] = Val(h[j].value)

\* C4 amended: the login form has one field for each name among mli,
\* password, dologin and the names of the hidden inputs; a name no hidden input
\* has carries its fixed value, and a name some hidden input has carries the
\* value of the last hidden input of that name; the form has N+3 fields
\* exactly when the N hidden names differ from each other and from the three
\* fixed names.
C4_FieldsByName ==
    Submitted =>
        LET h == Val(hidden)
            f == SubmittedForm
            HiddenNames == {Val(h[i].name) : i \in 1..Len(h)}
            Last(k) == CHOOSE i \in 1..Len(h) :
                          /\ Val(h[i].name) = k
                          /\ \A j \in 1..Len(h) : Val(h[j].name) = k => j <= i
        IN
        /\ DOMAIN f = FixedNames \cup HiddenNames
        /\ \A k \in DOMAIN f :
              f[k] = IF k \in HiddenNames THEN Val(h[Last(k)].value)
                     ELSE FixedValue(k)
        /\ (Cardinality(DOMAIN f) = Len(h) + 3) <=>
              /\ HiddenNames \cap FixedNames = {}
              /\ Cardinality(HiddenNames) = Len(h)

C4_Witness ==
    /\ Submitted
    /\ hidden = Some(<<[name |-> Some("mli"), value |-> Some("v1")],
                       [name |-> Some("mli"), value |-> Some("v2")]>>)
    /\ SubmittedForm["mli"] = "v2"
    /\ Cardinality(DOMAIN SubmittedForm) = 3

-----------------------------------------------------------------------------
(* The scraped records *)

Scraped == tables # None /\ Val(tables) # <<>>
FirstTable == Val(tables)[1]

RecordOf(row) ==
    [session |-> html_entities(trim(row[1])),
     course |-> html_entities(trim(row[2])),
     title |-> html_entities(trim(row[3])),
     grade |-> html_entities(trim(row[4]))]

\* C5: when every row of the first table.bodytext table has no td cell or at
\* least four, scrape_table returns one record for each row that has cells,
\* in the order of the rows, made of the first four cells of the row as
\* session, course, title and grade; rows without cells and the other tables
\* give no record.
C5_RecordsOfRows ==
    (Scraped /\ \A i \in 1..Len(FirstTable) :
                    Len(FirstTable[i]) = 0 \/ Len(FirstTable[i]) >= 4) =>
        LET DataRows == {i \in 1..Len(FirstTable) : Len(FirstTable[i]) > 0}
            Place(i) == Cardinality({j \in DataRows : j <= i})
        IN
        /\ error # "panic: index out of bounds"
        /\ table_content # None
        /\ Len(Val(table_content)) = Cardinality(DataRows)
        /\ \A i \in DataRows :
              Val(table_content)[Place(i)] = RecordOf(FirstTable[i])

C5_Witness ==
    /\ tables = Some(<<TableOfShape(<<0, 4, 5>>), OtherTable>>)
    /\ pc = "logout"
    /\ Len(Val(table_content)) = 2
    /\ Val(table_content)[2].session = <<"F", "W", "3">>
    /\ Val(table_content)[1].title = <<"T", " ", "&", " ", "2">>

\* C6: when a row of the first table has at least one td cell and fewer than
\* four, scrape_table panics: the run is aborted, no record is returned and
\* nothing is computed or printed.
C6_ShortRowIsFatal ==
    (Scraped /\ \E i \in 1..Len(FirstTable) :
                    Len(FirstTable[i]) > 0 /\ Len(FirstTable[i]) < 4) =>
        /\ pc = "aborted"
        /\ error = "panic: index out of bounds"
        /\ table_content = None
        /\ Len(requests) = 3
        /\ gpa = None
        /\ stdout = None

C6_Witness ==
    /\ tables = Some(<<TableOfShape(<<0, 4, 2>>)>>)
    /\ pc = "aborted"
    /\ error = "panic: index out of bounds"
    /\ table_content = None

-----------------------------------------------------------------------------
(* The grade point averages *)

\* the ten letter grades with their 9-point and 4-point values, in tenths
GradeScale ==
    <<"A", "+">> :> <<90, 40>> @@ <<"A">> :> <<80, 38>> @@
    <<"B", "+">> :> <<70, 33>> @@ <<"B">> :> <<60, 30>> @@
    <<"C", "+">> :> <<50, 23>> @@ <<"C">> :> <<40, 20>> @@
    <<"D", "+">> :> <<30, 13>> @@ <<"D">> :> <<20, 10>> @@
    <<"E">> :> <<10, 7>> @@ <<"F">> :> <<0, 0>>

\* the credit of a record: its fourth token as a number, when there is one
Credit(rec) ==
    LET parts == split_ascii_whitespace(rec.course) IN
    IF Len(parts) >= 4 /\ IsOk(ParseF32(parts[4]))
    THEN Some(ParseF32(parts[4])[2]) ELSE None

RECURSIVE SumOf(_, _)
SumOf(f, S) ==
    IF S = {} THEN Rat(0, 1)
    ELSE LET i == CHOOSE x \in S : TRUE
         IN F32Add(f[i], SumOf(f, S \ {i}))

\* calculate_gpa has been called: it returned, or main ended in its panic
Calculated ==
    \/ pc \in {"print", "done"}
    \/ pc = "aborted" /\ Len(requests) = 4 /\ error # TransportError

GradeRecord(c, g) ==
    [session |-> <<"F", "W", "2", "0">>, course |-> c, title |-> <<"T">>, grade |-> g]

\* C7: calculate_gpa weighs exactly the records with one of the ten letter
\* grades, each by the fourth token of its course field, and returns
\* four = sum4/sumCredits and nine = sum9/sumCredits; it panics only when
\* such a record has no fourth token that is a number; the records with
\* another grade change neither the sums nor whether it panics.
C7_WeightedAverage ==
    Calculated =>
        LET recs == Val(table_content)
            Q == {i \in 1..Len(recs) : recs[i].grade \in DOMAIN GradeScale}
            credit == [i \in Q |-> Val(Credit(recs[i]))]
            w9 == [i \in Q |-> F32Mul(Rat(GradeScale[recs[i].grade][1], 10), credit[i])]
            w4 == [i \in Q |-> F32Mul(Rat(GradeScale[recs[i].grade][2], 10), credit[i])]
        IN
        IF \A i \in Q : Credit(recs[i]) # None
        THEN /\ pc \in {"print", "done"}
             /\ Val(gpa).four = F32Div(SumOf(w4, Q), SumOf(credit, Q))
             /\ Val(gpa).nine = F32Div(SumOf(w9, Q), SumOf(credit, Q))
        ELSE /\ pc = "aborted"
             /\ error \in {PanicIndex, PanicUnwrap}
             /\ gpa = None

C7_Witness ==
    /\ pc = "done"
    /\ table_content = Some(<<GradeRecord(TxtX, <<"I", "P">>),
                              GradeRecord(Txt5Tok, <<"B", "+">>)>>)
    /\ Val(gpa).nine = [n |-> 7, d |-> 1]
    /\ Val(gpa).four = [n |-> 33, d |-> 10]

ClaimRecords ==
    <<GradeRecord(Txt3Tok1, <<"A", "+">>), GradeRecord(Txt3Tok2, <<"B">>)>>

FourTokenRecords ==
    <<GradeRecord(Txt4Tok1, <<"A", "+">>), GradeRecord(Txt4Tok2, <<"B">>)>>

\* C8 as stated: on the records with courses "AP/MATH 1000 3.00", grade A+ and
\* "AP/MATH 2000 3.00", grade B, calculate_gpa returns nine = 7.5 and
\* four = 3.5.
C8_ExampleAsStated ==
    (Calculated /\ table_content = Some(ClaimRecords)) =>
        /\ pc \in {"print", "done"}
        /\ gpa = Some([four |-> [n |-> 7, d |-> 2], nine |-> [n |-> 15, d |-> 2]])

\* C8 amended: on these two records calculate_gpa panics with an index out of
\* bounds, since "AP/MATH 1000 3.00" has three tokens and no fourth; on the
\* courses "AP MATH 1000 3.00" and "AP MATH 2000 3.00", whose fourth token is
\* 3.00, with the grades A+ and B it returns nine = 7.5 and four = 3.5.
C8_ExampleFourTokens ==
    /\ (Calculated /\ table_content = Some(ClaimRecords)) =>
          /\ pc = "aborted"
          /\ error = "panic: index out of bounds"
          /\ gpa = None
          /\ stdout = None
    /\ (Calculated /\ table_content = Some(FourTokenRecords)) =>
          /\ pc \in {"print", "done"}
          /\ gpa = Some([four |-> [n |-> 7, d |-> 2], nine |-> [n |-> 15, d |-> 2]])

C8_Witness ==
    /\ table_content = Some(ClaimRecords)
    /\ Len(requests) = 4
    /\ pc = "aborted"
    /\ error = "panic: index out of bounds"

NoneRecognized ==
    /\ table_content # None
    /\ \A i \in 1..Len(Val(table_content)) :
          Val(table_content)[i].grade \notin DOMAIN GradeScale

\* C9: when no record has one of the ten letter grades calculate_gpa does not
\* fail and both results are 0/0, not a number; main then prints and ends
\* without an error.
C9_NoGradesIsNaN ==
    NoneRecognized =>
        /\ pc = "calculate_gpa" => ENABLED CalculateGpa
        /\ pc = "print" => ENABLED MainPrint
        /\ pc = "aborted" => error = TransportError
        /\ pc \in {"print", "done"} =>
              /\ error = NoError
              /\ Val(gpa).four = [n |-> 0, d |-> 0]
              /\ Val(gpa).nine = [n |-> 0, d |-> 0]
        /\ pc = "done" => stdout # None

C9_Witness ==
    /\ pc = "done"
    /\ table_content = Some(<<GradeRecord(TxtX, <<"I", "P">>)>>)
    /\ gpa = Some([four |-> NaN, nine |-> NaN])
    /\ stdout # None

-----------------------------------------------------------------------------
(* The decoding of the entities *)

\* a decoding in one pass from the left: each entity is replaced where it
\* stands in the text, and what a replacement gives is not read again
RECURSIVE DecodeOnce(_)
DecodeOnce(s) ==
    IF s = <<>> THEN <<>>
    ELSE IF StartsWith(s, NBSP) THEN DecodeOnce(SubSeq(s, Len(NBSP) + 1, Len(s)))
    ELSE IF StartsWith(s, AMP)
         THEN <<"&">> \o DecodeOnce(SubSeq(s, Len(AMP) + 1, Len(s)))
    ELSE IF StartsWith(s, LT)
         THEN <<"<">> \o DecodeOnce(SubSeq(s, Len(LT) + 1, Len(s)))
    ELSE IF StartsWith(s, GT)
         THEN <<">">> \o DecodeOnce(SubSeq(s, Len(GT) + 1, Len(s)))
    ELSE <<Head(s)>> \o DecodeOnce(Tail(s))

\* C10: the text of a record is the text of its cell with each &nbsp;
\* removed, each &amp; &lt; &gt; replaced by & < >, and nothing else changed:
\* text that becomes an entity only by a replacement is not decoded again.
C10_DecodedOnce ==
    (Scraped /\ table_content # None) =>
        Val(table_content)[1].session = DecodeOnce(trim(FirstTable[1][1]))

=============================================================================
